---- MODULE Spec2Model ----
(***************************************************************************)
(* Red-black tree of src/dsa_c/src/4_trees.c.                              *)
(*                                                                         *)
(* The heap is a set of node records addressed by small integers: 0 is the *)
(* tree's sentinel (tree->nil), -1 is the C NULL pointer, 1..MaxNodes are  *)
(* the addresses malloc can hand out.  rb_insert_node and rb_delete are    *)
(* split at the heads of their fix-up loops and between the cases of one   *)
(* iteration, so that the states inside a fix-up are states of the model.  *)
(* Spec and SpecDistinct are that program; SpecCalls takes each call as    *)
(* one step, SpecArray builds a tree from a sorted array, and SpecAlloc    *)
(* starts before rb_create_tree with a malloc that can fail.               *)
(***************************************************************************)
EXTENDS Integers, Sequences, FiniteSets, TLC

\* The heap holds at most MaxNodes nodes and one run makes at most MaxOps
\* calls of rb_insert_node and rb_delete.  Keys are -1..MaxKey where a key
\* may be inserted again while present, -1..MaxDistinctKey where it may not.
\* Where each call is one step, one run makes at most MaxCalls calls.  Where
\* malloc can fail, it grants at most MaxBudget allocations.  A run that only
\* inserts makes at most MaxInserts calls.  On a tree built from an array
\* one run makes at most MaxBuiltCalls calls.
MaxNodes == 15
MaxKey == 1
MaxDistinctKey == 4
MaxOps == 7
MaxCalls == 6
MaxBudget == 8
MaxInserts == 8
MaxBuiltCalls == 1

NIL == 0
NULLP == -1
Nodes == 1..MaxNodes
Ptr == NULLP..MaxNodes
Keys == -1..MaxKey
WideKeys == -1..MaxDistinctKey

\* The number of allocations malloc still grants when it is not NoLimit.
NoLimit == -1

VARIABLES root, left, right, parent, color, data, live,
          pc, z, x, dir, arg, yoc, net, rots, nops, arr, budget

vars == <<root, left, right, parent, color, data, live,
          pc, z, x, dir, arg, yoc, net, rots, nops, arr, budget>>

\* The whole program state as one record, so that the C functions can be
\* written as operators from state to state.
S ==
  [root |-> root, left |-> left, right |-> right, parent |-> parent,
   color |-> color, data |-> data, live |-> live, pc |-> pc, z |-> z,
   x |-> x, dir |-> dir, arg |-> arg, yoc |-> yoc, net |-> net, rots |-> rots,
   nops |-> nops, arr |-> arr, budget |-> budget]

Set(s) ==
  /\ root' = s.root
  /\ left' = s.left
  /\ right' = s.right
  /\ parent' = s.parent
  /\ color' = s.color
  /\ data' = s.data
  /\ live' = s.live
  /\ pc' = s.pc
  /\ z' = s.z
  /\ x' = s.x
  /\ dir' = s.dir
  /\ arg' = s.arg
  /\ yoc' = s.yoc
  /\ net' = s.net
  /\ rots' = s.rots
  /\ nops' = s.nops
  /\ arr' = s.arr
  /\ budget' = s.budget

\* A dereference of NULL: the run is over, nothing more is defined.
Undefined(s) == [s EXCEPT !.pc = "undefined"]

\* exit(1): the process is over.
Exit(s) == [s EXCEPT !.pc = "exited"]

Goto(s, p) == IF s.pc = "undefined" THEN s ELSE [s EXCEPT !.pc = p]

\* Leaving rb_insert_node / rb_delete: the locals go out of scope.
Return(s) ==
  IF s.pc = "undefined" THEN s
  ELSE [s EXCEPT !.pc = "idle", !.z = NIL, !.x = NIL, !.dir = "-",
                 !.arg = 0, !.yoc = "BLACK", !.rots = 0]

\* ---------------------------------------------------------------------
\* Creation
\* ---------------------------------------------------------------------

\* rb_create_tree: the sentinel is BLACK, its links are NULL, its data 0.
Init ==
  /\ root = NIL
  /\ left = [n \in Ptr |-> NULLP]
  /\ right = [n \in Ptr |-> NULLP]
  /\ parent = [n \in Ptr |-> NULLP]
  /\ color = [n \in Ptr |-> IF n \in Nodes THEN "RED" ELSE "BLACK"]
  /\ data = [n \in Ptr |-> 0]
  /\ live = {}
  /\ pc = "idle"
  /\ z = NIL
  /\ x = NIL
  /\ dir = "-"
  /\ arg = 0
  /\ yoc = "BLACK"
  /\ net = [k \in Keys \cup WideKeys |-> 0]
  /\ rots = 0
  /\ nops = 0
  /\ arr = <<>>
  /\ budget = NoLimit

\* malloc: the lowest free address.
NewAddr(s) == CHOOSE n \in Nodes \ s.live : \A m \in Nodes \ s.live : n <= m

\* malloc returns NULL when the allocations it grants are used up.
MallocFails(s) == s.budget = 0

Granted(s) == IF s.budget > 0 THEN [s EXCEPT !.budget = @ - 1] ELSE s

rb_create_node(s, d) ==
  IF MallocFails(s) THEN Exit(s)
  ELSE
    LET n == NewAddr(s)
    IN [Granted(s) EXCEPT !.live = @ \cup {n}, !.data[n] = d,
                          !.color[n] = "RED", !.left[n] = NIL,
                          !.right[n] = NIL, !.parent[n] = NIL]

\* free: the block leaves the heap; its contents are never read again.
Free(s, n) ==
  [s EXCEPT !.live = @ \ {n}, !.data[n] = 0, !.color[n] = "RED",
            !.left[n] = NULLP, !.right[n] = NULLP, !.parent[n] = NULLP]

\* Before rb_create_tree: no tree and no sentinel yet. The input array is a
\* and malloc grants b allocations.
Start(a, b) ==
  /\ root = NIL
  /\ left = [n \in Ptr |-> NULLP]
  /\ right = [n \in Ptr |-> NULLP]
  /\ parent = [n \in Ptr |-> NULLP]
  /\ color = [n \in Ptr |-> IF n = NULLP THEN "BLACK" ELSE "RED"]
  /\ data = [n \in Ptr |-> 0]
  /\ live = {}
  /\ pc = "start"
  /\ z = NIL
  /\ x = NIL
  /\ dir = "-"
  /\ arg = 0
  /\ yoc = "BLACK"
  /\ net = [k \in Keys \cup WideKeys |-> 0]
  /\ rots = 0
  /\ nops = 0
  /\ arr = a
  /\ budget = b

\* rb_create_tree: the tree's allocation is tested, the sentinel's is not:
\* when it fails, tree->nil is NULL and the next statement writes through
\* it.
rb_create_tree(s) ==
  IF MallocFails(s) THEN Exit(s)
  ELSE
    LET s1 == Granted(s)
    IN IF MallocFails(s1) THEN Undefined(s1)
       ELSE [Granted(s1) EXCEPT !.color[NIL] = "BLACK", !.left[NIL] = NULLP,
                                !.right[NIL] = NULLP, !.parent[NIL] = NULLP,
                                !.data[NIL] = 0, !.root = NIL, !.pc = "idle"]

\* ---------------------------------------------------------------------
\* Rotations
\* ---------------------------------------------------------------------

\* rb_rotate_left without its test of x->parent: y always becomes the root.
rb_rotate_left_root_always(s, xn) ==
  LET y == s.right[xn]
  IN IF s.pc = "undefined" THEN s
     ELSE IF y = NULLP \/ s.left[y] = NULLP THEN Undefined(s)
     ELSE
       LET s1 == [s EXCEPT !.right[xn] = s.left[y]]
           s2 == IF s1.left[y] # NIL
                 THEN [s1 EXCEPT !.parent[s1.left[y]] = xn] ELSE s1
           s3 == [s2 EXCEPT !.parent[y] = s2.parent[xn]]
           s4 == [s3 EXCEPT !.root = y]
       IN [s4 EXCEPT !.left[y] = xn, !.parent[xn] = y, !.rots = @ + 1]

rb_rotate_left(s, xn) ==
  LET y == s.right[xn]
  IN IF s.pc = "undefined" THEN s
     ELSE IF y = NULLP \/ s.left[y] = NULLP THEN Undefined(s)
     ELSE
       LET s1 == [s EXCEPT !.right[xn] = s.left[y]]
           s2 == IF s1.left[y] # NIL
                 THEN [s1 EXCEPT !.parent[s1.left[y]] = xn] ELSE s1
           s3 == [s2 EXCEPT !.parent[y] = s2.parent[xn]]
           s4 == IF s3.parent[xn] = NIL THEN [s3 EXCEPT !.root = y]
                 ELSE IF xn = s3.left[s3.parent[xn]]
                      THEN [s3 EXCEPT !.left[s3.parent[xn]] = y]
                      ELSE [s3 EXCEPT !.right[s3.parent[xn]] = y]
       IN [s4 EXCEPT !.left[y] = xn, !.parent[xn] = y, !.rots = @ + 1]

rb_rotate_right(s, yn) ==
  LET xl == s.left[yn]
  IN IF s.pc = "undefined" THEN s
     ELSE IF xl = NULLP \/ s.right[xl] = NULLP THEN Undefined(s)
     ELSE
       LET s1 == [s EXCEPT !.left[yn] = s.right[xl]]
           s2 == IF s1.right[xl] # NIL
                 THEN [s1 EXCEPT !.parent[s1.right[xl]] = yn] ELSE s1
           s3 == [s2 EXCEPT !.parent[xl] = s2.parent[yn]]
           s4 == IF s3.parent[yn] = NIL THEN [s3 EXCEPT !.root = xl]
                 ELSE IF yn = s3.right[s3.parent[yn]]
                      THEN [s3 EXCEPT !.right[s3.parent[yn]] = xl]
                      ELSE [s3 EXCEPT !.left[s3.parent[yn]] = xl]
       IN [s4 EXCEPT !.right[xl] = yn, !.parent[yn] = xl, !.rots = @ + 1]

\* ---------------------------------------------------------------------
\* Insertion
\* ---------------------------------------------------------------------

\* The descent with its comparison the wrong way round.
RECURSIVE InsertParentFlipped(_, _, _, _)
InsertParentFlipped(s, par, cur, d) ==
  IF cur = NIL THEN par
  ELSE InsertParentFlipped(s, cur, IF d > s.data[cur] THEN s.left[cur]
                                                      ELSE s.right[cur], d)

\* The descent loop of rb_insert_node: the node under which d is linked.
RECURSIVE InsertParent(_, _, _, _)
InsertParent(s, par, cur, d) ==
  IF cur = NIL THEN par
  ELSE InsertParent(s, cur, IF d < s.data[cur] THEN s.left[cur]
                                               ELSE s.right[cur], d)

\* rb_insert_node up to the call of rb_fix_insert_violations.
rb_insert_node(s, d) ==
  LET s1 == rb_create_node(s, d)
      nn == NewAddr(s)
      par == InsertParent(s1, NIL, s1.root, d)
      s2 == [s1 EXCEPT !.parent[nn] = par]
      s3 == IF par = NIL THEN [s2 EXCEPT !.root = nn]
            ELSE IF s2.data[nn] < s2.data[par]
                 THEN [s2 EXCEPT !.left[par] = nn]
                 ELSE [s2 EXCEPT !.right[par] = nn]
  IN IF s1.pc = "exited" THEN s1
     ELSE [s3 EXCEPT !.z = nn, !.arg = d, !.pc = "ifix", !.rots = 0]

\* Which side of the grandparent z's parent is on (line 226).
InsSide(s) ==
  IF s.pc = "icase3" THEN s.dir
  ELSE IF s.parent[s.z] = s.left[s.parent[s.parent[s.z]]] THEN "L" ELSE "R"

InsUncle(s) ==
  IF InsSide(s) = "L" THEN s.right[s.parent[s.parent[s.z]]]
                      ELSE s.left[s.parent[s.parent[s.z]]]

\* The branch rb_fix_insert_violations takes next: 0 leaves the loop.
InsCase(s) ==
  IF s.pc = "icase3" THEN 3
  ELSE IF s.color[s.parent[s.z]] # "RED" THEN 0
  ELSE IF s.color[InsUncle(s)] = "RED" THEN 1
  ELSE IF InsSide(s) = "L" /\ s.z = s.right[s.parent[s.z]] THEN 2
  ELSE IF InsSide(s) = "R" /\ s.z = s.left[s.parent[s.z]] THEN 2
  ELSE 3

\* uncle->color reads through NULL when the grandparent is the sentinel.
InsNull(s) ==
  s.parent[s.parent[s.z]] = NULLP \/ InsUncle(s) = NULLP

\* Case 1 without "z->parent->color = BLACK".
fix_insert_case1_parent_kept(s) ==
  LET u == InsUncle(s)
      s2 == [s EXCEPT !.color[u] = "BLACK"]
      s3 == [s2 EXCEPT !.color[s2.parent[s2.parent[s2.z]]] = "RED"]
  IN [s3 EXCEPT !.z = s3.parent[s3.parent[s3.z]], !.pc = "ifix"]

\* Case 1 without "uncle->color = BLACK".
fix_insert_case1_uncle_kept(s) ==
  LET s1 == [s EXCEPT !.color[s.parent[s.z]] = "BLACK"]
      s3 == [s1 EXCEPT !.color[s1.parent[s1.parent[s1.z]]] = "RED"]
  IN [s3 EXCEPT !.z = s3.parent[s3.parent[s3.z]], !.pc = "ifix"]

\* Case 1: the uncle is RED.
fix_insert_case1(s) ==
  LET u == InsUncle(s)
      s1 == [s EXCEPT !.color[s.parent[s.z]] = "BLACK"]
      s2 == [s1 EXCEPT !.color[u] = "BLACK"]
      s3 == [s2 EXCEPT !.color[s2.parent[s2.parent[s2.z]]] = "RED"]
  IN [s3 EXCEPT !.z = s3.parent[s3.parent[s3.z]], !.pc = "ifix"]

\* Case 2: the uncle is BLACK and z is the inner grandchild.
fix_insert_case2(s) ==
  LET side == InsSide(s)
      s1 == [s EXCEPT !.z = s.parent[s.z], !.dir = side]
      s2 == IF side = "L" THEN rb_rotate_left(s1, s1.z)
                          ELSE rb_rotate_right(s1, s1.z)
  IN IF InsNull(s) THEN Undefined(s) ELSE Goto(s2, "icase3")

\* Case 3 without "z->parent->color = BLACK".
fix_insert_case3_parent_kept(s) ==
  LET side == InsSide(s)
      s2 == [s EXCEPT !.color[s.parent[s.parent[s.z]]] = "RED"]
      s3 == IF side = "L" THEN rb_rotate_right(s2, s2.parent[s2.parent[s2.z]])
                          ELSE rb_rotate_left(s2, s2.parent[s2.parent[s2.z]])
  IN IF s.pc = "ifix" /\ InsNull(s) THEN Undefined(s)
     ELSE Goto([s3 EXCEPT !.dir = "-"], "ifix")

\* Case 3 without the rotation of the grandparent.
fix_insert_case3_no_rotation(s) ==
  LET s1 == [s EXCEPT !.color[s.parent[s.z]] = "BLACK"]
      s2 == [s1 EXCEPT !.color[s1.parent[s1.parent[s1.z]]] = "RED"]
  IN IF s.pc = "ifix" /\ InsNull(s) THEN Undefined(s)
     ELSE Goto([s2 EXCEPT !.dir = "-"], "ifix")

\* Case 3: the uncle is BLACK and z is the outer grandchild.
fix_insert_case3(s) ==
  LET side == InsSide(s)
      s1 == [s EXCEPT !.color[s.parent[s.z]] = "BLACK"]
      s2 == [s1 EXCEPT !.color[s1.parent[s1.parent[s1.z]]] = "RED"]
      s3 == IF side = "L" THEN rb_rotate_right(s2, s2.parent[s2.parent[s2.z]])
                          ELSE rb_rotate_left(s2, s2.parent[s2.parent[s2.z]])
  IN IF s.pc = "ifix" /\ InsNull(s) THEN Undefined(s)
     ELSE Goto([s3 EXCEPT !.dir = "-"], "ifix")

\* The loop exit without "tree->root->color = BLACK".
fix_insert_exit_root_kept(s) ==
  Return([s EXCEPT !.net[s.arg] = @ + 1])

\* Loop exit: the root is made BLACK and rb_insert_node returns.
fix_insert_exit(s) ==
  LET s1 == [s EXCEPT !.color[s.root] = "BLACK"]
  IN Return([s1 EXCEPT !.net[s.arg] = @ + 1])

\* ---------------------------------------------------------------------
\* Deletion
\* ---------------------------------------------------------------------

RECURSIVE rb_minimum(_, _)
rb_minimum(s, n) ==
  IF s.left[n] # NIL THEN rb_minimum(s, s.left[n]) ELSE n

\* rb_transplant without "v->parent = u->parent".
rb_transplant_parent_unset(s, u, v) ==
  IF s.parent[u] = NIL THEN [s EXCEPT !.root = v]
  ELSE IF u = s.left[s.parent[u]]
       THEN [s EXCEPT !.left[s.parent[u]] = v]
       ELSE [s EXCEPT !.right[s.parent[u]] = v]

\* v->parent is written also when v is the sentinel.
rb_transplant(s, u, v) ==
  LET s1 == IF s.parent[u] = NIL THEN [s EXCEPT !.root = v]
            ELSE IF u = s.left[s.parent[u]]
                 THEN [s EXCEPT !.left[s.parent[u]] = v]
                 ELSE [s EXCEPT !.right[s.parent[u]] = v]
  IN [s1 EXCEPT !.parent[v] = s1.parent[u]]

\* The splice without "x->parent = y" where the successor is z's child.
DeleteSpliceParentUnset(s, zn) ==
  IF s.left[zn] = NIL
  THEN [rb_transplant(s, zn, s.right[zn])
          EXCEPT !.x = s.right[zn], !.yoc = s.color[zn]]
  ELSE IF s.right[zn] = NIL
  THEN [rb_transplant(s, zn, s.left[zn])
          EXCEPT !.x = s.left[zn], !.yoc = s.color[zn]]
  ELSE
    LET y == rb_minimum(s, s.right[zn])
        xn == s.right[y]
        s1 == IF s.parent[y] = zn
              THEN s
              ELSE LET t1 == rb_transplant(s, y, s.right[y])
                       t2 == [t1 EXCEPT !.right[y] = t1.right[zn]]
                   IN [t2 EXCEPT !.parent[t2.right[y]] = y]
        s2 == rb_transplant(s1, zn, y)
        s3 == [s2 EXCEPT !.left[y] = s2.left[zn]]
        s4 == [s3 EXCEPT !.parent[s3.left[y]] = y]
        s5 == [s4 EXCEPT !.color[y] = s4.color[zn]]
    IN [s5 EXCEPT !.x = xn, !.yoc = s.color[y]]

\* The splice without "y->left = z->left" in the two-children case.
DeleteSpliceLeftLost(s, zn) ==
  IF s.left[zn] = NIL
  THEN [rb_transplant(s, zn, s.right[zn])
          EXCEPT !.x = s.right[zn], !.yoc = s.color[zn]]
  ELSE IF s.right[zn] = NIL
  THEN [rb_transplant(s, zn, s.left[zn])
          EXCEPT !.x = s.left[zn], !.yoc = s.color[zn]]
  ELSE
    LET y == rb_minimum(s, s.right[zn])
        xn == s.right[y]
        s1 == IF s.parent[y] = zn
              THEN [s EXCEPT !.parent[xn] = y]
              ELSE LET t1 == rb_transplant(s, y, s.right[y])
                       t2 == [t1 EXCEPT !.right[y] = t1.right[zn]]
                   IN [t2 EXCEPT !.parent[t2.right[y]] = y]
        s2 == rb_transplant(s1, zn, y)
        s4 == [s2 EXCEPT !.parent[s2.left[y]] = y]
        s5 == [s4 EXCEPT !.color[y] = s4.color[zn]]
    IN [s5 EXCEPT !.x = xn, !.yoc = s.color[y]]

\* rb_delete up to "if (y_original_color == BLACK)": the splice.
DeleteSplice(s, zn) ==
  IF s.left[zn] = NIL
  THEN [rb_transplant(s, zn, s.right[zn])
          EXCEPT !.x = s.right[zn], !.yoc = s.color[zn]]
  ELSE IF s.right[zn] = NIL
  THEN [rb_transplant(s, zn, s.left[zn])
          EXCEPT !.x = s.left[zn], !.yoc = s.color[zn]]
  ELSE
    LET y == rb_minimum(s, s.right[zn])
        xn == s.right[y]
        s1 == IF s.parent[y] = zn
              THEN [s EXCEPT !.parent[xn] = y]
              ELSE LET t1 == rb_transplant(s, y, s.right[y])
                       t2 == [t1 EXCEPT !.right[y] = t1.right[zn]]
                   IN [t2 EXCEPT !.parent[t2.right[y]] = y]
        s2 == rb_transplant(s1, zn, y)
        s3 == [s2 EXCEPT !.left[y] = s2.left[zn]]
        s4 == [s3 EXCEPT !.parent[s3.left[y]] = y]
        s5 == [s4 EXCEPT !.color[y] = s4.color[zn]]
    IN [s5 EXCEPT !.x = xn, !.yoc = s.color[y]]

\* free(z) and return: one more completed delete of a node keyed data[z].
DeleteReturn(s) ==
  IF s.pc = "undefined" THEN s
  ELSE Return(Free([s EXCEPT !.net[s.data[s.arg]] = @ - 1], s.arg))

\* Deletion by key copy: in the two-children case the successor's key is
\* copied into z and the successor is the node spliced out and freed.
rb_delete_key_copy(s, zn) ==
  LET two == s.left[zn] # NIL /\ s.right[zn] # NIL
      y == IF two THEN rb_minimum(s, s.right[zn]) ELSE zn
      s0 == [s EXCEPT !.data[zn] = s.data[y],
                      !.net[s.data[zn]] = @ - 1, !.net[s.data[y]] = @ + 1]
      s1 == [DeleteSplice(s0, y) EXCEPT !.arg = y, !.rots = 0]
  IN IF s1.yoc = "BLACK" THEN [s1 EXCEPT !.pc = "dfix"]
     ELSE DeleteReturn(s1)

\* rb_delete(tree, z): the splice, then either the fix-up or free(z).
rb_delete(s, zn) ==
  LET s1 == [DeleteSplice(s, zn) EXCEPT !.arg = zn, !.rots = 0]
  IN IF s1.yoc = "BLACK" THEN [s1 EXCEPT !.pc = "dfix"]
     ELSE DeleteReturn(s1)

\* Which child of its parent x is (line 451), fixed for one iteration.
DelSide(s) ==
  IF s.pc = "dfix"
  THEN IF s.x = s.left[s.parent[s.x]] THEN "L" ELSE "R"
  ELSE s.dir

\* The sibling taken on x's own side of x->parent.
DelWSameSide(s) ==
  IF DelSide(s) = "L" THEN s.left[s.parent[s.x]] ELSE s.right[s.parent[s.x]]

\* The sibling w of x: x->parent->right, or ->left in the mirror cases.
DelW(s) ==
  IF DelSide(s) = "L" THEN s.right[s.parent[s.x]] ELSE s.left[s.parent[s.x]]

\* w's child on the far side from x, and on the near side.
DelFar(s) == IF DelSide(s) = "L" THEN s.right[DelW(s)] ELSE s.left[DelW(s)]

DelNear(s) == IF DelSide(s) = "L" THEN s.left[DelW(s)] ELSE s.right[DelW(s)]

\* The branch rb_delete_fixup takes next: 0 leaves the loop.
DelCase(s) ==
  IF s.pc = "dcase4" THEN 4
  ELSE IF s.pc = "dfix" /\ ~(s.x # s.root /\ s.color[s.x] = "BLACK") THEN 0
  ELSE IF s.pc = "dfix" /\ s.color[DelW(s)] = "RED" THEN 1
  ELSE IF s.color[DelNear(s)] = "BLACK" /\ s.color[DelFar(s)] = "BLACK" THEN 2
  ELSE IF s.color[DelFar(s)] = "BLACK" THEN 3
  ELSE 4

\* Case 1 with x recolored in place of x->parent.
fix_delete_case1_wrong_node(s) ==
  LET side == DelSide(s)
      s1 == [s EXCEPT !.color[DelW(s)] = "BLACK"]
      s2 == [s1 EXCEPT !.color[s1.x] = "RED"]
      s3 == IF side = "L" THEN rb_rotate_left(s2, s2.parent[s2.x])
                          ELSE rb_rotate_right(s2, s2.parent[s2.x])
  IN Goto([s3 EXCEPT !.dir = side], "dw")

\* Case 1: the sibling is RED.
fix_delete_case1(s) ==
  LET side == DelSide(s)
      s1 == [s EXCEPT !.color[DelW(s)] = "BLACK"]
      s2 == [s1 EXCEPT !.color[s1.parent[s1.x]] = "RED"]
      s3 == IF side = "L" THEN rb_rotate_left(s2, s2.parent[s2.x])
                          ELSE rb_rotate_right(s2, s2.parent[s2.x])
  IN Goto([s3 EXCEPT !.dir = side], "dw")

\* Case 2 without "x = x->parent".
fix_delete_case2_x_kept(s) ==
  IF DelW(s) = NIL \/ DelW(s) = NULLP THEN Undefined(s)
  ELSE LET s1 == [s EXCEPT !.color[DelW(s)] = "RED"]
       IN [s1 EXCEPT !.dir = "-", !.pc = "dfix"]

\* Case 2 without "w->color = RED".
fix_delete_case2_w_kept(s) ==
  IF DelW(s) = NIL \/ DelW(s) = NULLP THEN Undefined(s)
  ELSE [s EXCEPT !.x = s.parent[s.x], !.dir = "-", !.pc = "dfix"]

\* Case 2: both children of the sibling are BLACK.
fix_delete_case2(s) ==
  IF DelW(s) = NIL \/ DelW(s) = NULLP THEN Undefined(s)
  ELSE LET s1 == [s EXCEPT !.color[DelW(s)] = "RED"]
       IN [s1 EXCEPT !.x = s1.parent[s1.x], !.dir = "-", !.pc = "dfix"]

\* Case 3: the sibling's far child is BLACK, its near child RED.
fix_delete_case3(s) ==
  IF DelW(s) = NIL \/ DelW(s) = NULLP THEN Undefined(s)
  ELSE LET side == DelSide(s)
           w == DelW(s)
           s1 == [s EXCEPT !.color[DelNear(s)] = "BLACK"]
           s2 == [s1 EXCEPT !.color[w] = "RED"]
           s3 == IF side = "L" THEN rb_rotate_right(s2, w)
                               ELSE rb_rotate_left(s2, w)
       IN Goto([s3 EXCEPT !.dir = side], "dcase4")

\* Case 4 without "x = tree->root".
fix_delete_case4_x_kept(s) ==
  IF DelW(s) = NIL \/ DelW(s) = NULLP THEN Undefined(s)
  ELSE LET side == DelSide(s)
           w == DelW(s)
           s1 == [s EXCEPT !.color[w] = s.color[s.parent[s.x]]]
           s2 == [s1 EXCEPT !.color[s1.parent[s1.x]] = "BLACK"]
           s3 == [s2 EXCEPT !.color[IF side = "L" THEN s2.right[w]
                                                  ELSE s2.left[w]] = "BLACK"]
           s4 == IF side = "L" THEN rb_rotate_left(s3, s3.parent[s3.x])
                               ELSE rb_rotate_right(s3, s3.parent[s3.x])
       IN Goto([s4 EXCEPT !.dir = "-"], "dfix")

\* Case 4: the sibling's far child is RED.
fix_delete_case4(s) ==
  IF DelW(s) = NIL \/ DelW(s) = NULLP THEN Undefined(s)
  ELSE LET side == DelSide(s)
           w == DelW(s)
           s1 == [s EXCEPT !.color[w] = s.color[s.parent[s.x]]]
           s2 == [s1 EXCEPT !.color[s1.parent[s1.x]] = "BLACK"]
           s3 == [s2 EXCEPT !.color[IF side = "L" THEN s2.right[w]
                                                  ELSE s2.left[w]] = "BLACK"]
           s4 == IF side = "L" THEN rb_rotate_left(s3, s3.parent[s3.x])
                               ELSE rb_rotate_right(s3, s3.parent[s3.x])
       IN Goto([s4 EXCEPT !.x = s4.root, !.dir = "-"], "dfix")

\* Loop exit: x is made BLACK, then rb_delete frees z and returns.
fix_delete_exit(s) ==
  DeleteReturn([s EXCEPT !.color[s.x] = "BLACK"])

\* One step of a running call, and the call run to its return.
Step(s) ==
  CASE s.pc \in {"ifix", "icase3"} ->
         (CASE InsCase(s) = 0 -> fix_insert_exit(s)
            [] InsCase(s) = 1 -> fix_insert_case1(s)
            [] InsCase(s) = 2 -> fix_insert_case2(s)
            [] OTHER -> fix_insert_case3(s))
    [] s.pc \in {"dfix", "dw", "dcase4"} ->
         (CASE DelCase(s) = 0 -> fix_delete_exit(s)
            [] DelCase(s) = 1 -> fix_delete_case1(s)
            [] DelCase(s) = 2 -> fix_delete_case2(s)
            [] DelCase(s) = 3 -> fix_delete_case3(s)
            [] OTHER -> fix_delete_case4(s))
    [] OTHER -> s

RECURSIVE Run(_)
Run(s) ==
  IF s.pc \in {"idle", "undefined", "exited"} THEN s ELSE Run(Step(s))

\* One pass through the body of a fix-up loop, from the test of the while
\* condition to the next test.
RECURSIVE Iteration(_)
Iteration(s) ==
  LET t == Step(s)
  IN IF t.pc \in {"icase3", "dw", "dcase4"} THEN Iteration(t) ELSE t

\* ---------------------------------------------------------------------
\* Construction from a sorted array
\* ---------------------------------------------------------------------

\* The middle taken at the start of the subarray.
MidAtStart(start, end) == start

\* int mid = start + (end - start) / 2
Mid(start, end) == start + (end - start) \div 2

\* rb_sorted_array_to_bst_helper with the two halves exchanged.
RECURSIVE rb_sorted_array_to_bst_helper_swapped(_, _, _, _)
rb_sorted_array_to_bst_helper_swapped(s, a, start, end) ==
  IF start > end \/ s.pc = "exited" THEN [s |-> s, node |-> NIL]
  ELSE
    LET mid == Mid(start, end)
        node == NewAddr(s)
        s1 == rb_create_node(s, a[mid + 1])
        l == rb_sorted_array_to_bst_helper_swapped(s1, a, mid + 1, end)
        s2 == [l.s EXCEPT !.left[node] = l.node]
        s3 == IF s2.left[node] # NIL
              THEN [s2 EXCEPT !.parent[s2.left[node]] = node] ELSE s2
        r == rb_sorted_array_to_bst_helper_swapped(s3, a, start, mid - 1)
        s4 == [r.s EXCEPT !.right[node] = r.node]
        s5 == IF s4.right[node] # NIL
              THEN [s4 EXCEPT !.parent[s4.right[node]] = node] ELSE s4
    IN IF s1.pc = "exited" THEN [s |-> s1, node |-> NIL]
       ELSE IF l.s.pc = "exited" THEN [s |-> l.s, node |-> NIL]
       ELSE IF r.s.pc = "exited" THEN [s |-> r.s, node |-> NIL]
       ELSE [s |-> s5, node |-> node]

\* The state after the call and the node it returns. Element i of the C
\* array is a[i + 1].
RECURSIVE rb_sorted_array_to_bst_helper(_, _, _, _)
rb_sorted_array_to_bst_helper(s, a, start, end) ==
  IF start > end \/ s.pc = "exited" THEN [s |-> s, node |-> NIL]
  ELSE
    LET mid == Mid(start, end)
        node == NewAddr(s)
        s1 == rb_create_node(s, a[mid + 1])
        l == rb_sorted_array_to_bst_helper(s1, a, start, mid - 1)
        s2 == [l.s EXCEPT !.left[node] = l.node]
        s3 == IF s2.left[node] # NIL
              THEN [s2 EXCEPT !.parent[s2.left[node]] = node] ELSE s2
        r == rb_sorted_array_to_bst_helper(s3, a, mid + 1, end)
        s4 == [r.s EXCEPT !.right[node] = r.node]
        s5 == IF s4.right[node] # NIL
              THEN [s4 EXCEPT !.parent[s4.right[node]] = node] ELSE s4
    IN IF s1.pc = "exited" THEN [s |-> s1, node |-> NIL]
       ELSE IF l.s.pc = "exited" THEN [s |-> l.s, node |-> NIL]
       ELSE IF r.s.pc = "exited" THEN [s |-> r.s, node |-> NIL]
       ELSE [s |-> s5, node |-> node]

\* rb_create_from_sorted_array without "tree->root->color = BLACK".
rb_create_from_sorted_array_root_red(s, a, size) ==
  IF size <= 0 THEN [s EXCEPT !.pc = "notree"]
  ELSE
    LET t0 == rb_create_tree(s)
        h == rb_sorted_array_to_bst_helper(t0, a, 0, size - 1)
        t1 == [h.s EXCEPT !.root = h.node]
    IN IF t0.pc # "idle" THEN t0
       ELSE IF h.s.pc = "exited" THEN h.s
       ELSE IF t1.root # NIL
            THEN [t1 EXCEPT !.parent[t1.root] = NIL]
            ELSE t1

\* rb_create_from_sorted_array: no tree ("notree", the NULL it returns) for
\* size <= 0.
rb_create_from_sorted_array(s, a, size) ==
  IF size <= 0 THEN [s EXCEPT !.pc = "notree"]
  ELSE
    LET t0 == rb_create_tree(s)
        h == rb_sorted_array_to_bst_helper(t0, a, 0, size - 1)
        t1 == [h.s EXCEPT !.root = h.node]
    IN IF t0.pc # "idle" THEN t0
       ELSE IF h.s.pc = "exited" THEN h.s
       ELSE IF t1.root # NIL
            THEN [t1 EXCEPT !.parent[t1.root] = NIL, !.color[t1.root] = "BLACK"]
            ELSE t1

\* ---------------------------------------------------------------------
\* Queries
\* ---------------------------------------------------------------------

\* The search descending to the wrong side.
RECURSIVE rb_search_flipped(_, _, _)
rb_search_flipped(s, n, d) ==
  IF n = NIL \/ d = s.data[n] THEN n
  ELSE IF d > s.data[n] THEN rb_search_flipped(s, s.left[n], d)
  ELSE rb_search_flipped(s, s.right[n], d)

RECURSIVE rb_search(_, _, _)
rb_search(s, n, d) ==
  IF n = NIL \/ d = s.data[n] THEN n
  ELSE IF d < s.data[n] THEN rb_search(s, s.left[n], d)
  ELSE rb_search(s, s.right[n], d)

\* rb_count_nodes leaving out the right subtree.
RECURSIVE rb_count_nodes_left_only(_, _)
rb_count_nodes_left_only(s, n) ==
  IF n = NIL THEN 0
  ELSE 1 + rb_count_nodes_left_only(s, s.left[n])

RECURSIVE rb_count_nodes(_, _)
rb_count_nodes(s, n) ==
  IF n = NIL THEN 0
  ELSE 1 + rb_count_nodes(s, s.left[n]) + rb_count_nodes(s, s.right[n])

\* The two tests of rb_find_lca with || in place of &&.
RECURSIVE rb_find_lca_either(_, _, _, _)
rb_find_lca_either(s, n, n1, n2) ==
  IF n = NIL THEN NIL
  ELSE IF n1 < s.data[n] \/ n2 < s.data[n]
       THEN rb_find_lca_either(s, s.left[n], n1, n2)
  ELSE IF n1 > s.data[n] \/ n2 > s.data[n]
       THEN rb_find_lca_either(s, s.right[n], n1, n2)
  ELSE n

RECURSIVE rb_find_lca(_, _, _, _)
rb_find_lca(s, n, n1, n2) ==
  IF n = NIL THEN NIL
  ELSE IF n1 < s.data[n] /\ n2 < s.data[n]
       THEN rb_find_lca(s, s.left[n], n1, n2)
  ELSE IF n1 > s.data[n] /\ n2 > s.data[n]
       THEN rb_find_lca(s, s.right[n], n1, n2)
  ELSE n

\* The nodes in the order rb_traverse_inorder prints them.
RECURSIVE rb_traverse_inorder(_, _)
rb_traverse_inorder(s, n) ==
  IF n # NIL
  THEN rb_traverse_inorder(s, s.left[n]) \o <<n>>
         \o rb_traverse_inorder(s, s.right[n])
  ELSE <<>>

\* rb_black_height giving 0 for the sentinel.
RECURSIVE rb_black_height_from_zero(_, _)
rb_black_height_from_zero(s, n) ==
  IF n = NIL THEN 0
  ELSE LET left_bh == rb_black_height_from_zero(s, s.left[n])
       IN left_bh + (IF s.color[n] = "BLACK" THEN 1 ELSE 0)

RECURSIVE rb_black_height(_, _)
rb_black_height(s, n) ==
  IF n = NIL THEN 1
  ELSE LET left_bh == rb_black_height(s, s.left[n])
       IN left_bh + (IF s.color[n] = "BLACK" THEN 1 ELSE 0)

RECURSIVE rb_height(_, _)
rb_height(s, n) ==
  IF n = NIL THEN 0
  ELSE LET left_height == rb_height(s, s.left[n])
           right_height == rb_height(s, s.right[n])
       IN 1 + (IF left_height > right_height THEN left_height
                                             ELSE right_height)

\* ---------------------------------------------------------------------
\* Traversals. Each yields the nodes in the order it visits them; the ones
\* that take a search value also yield the node they return (NULLP for
\* NULL). A node is visited when the function prints it or, searching,
\* compares its key.

RECURSIVE rb_traverse_preorder(_, _)
rb_traverse_preorder(s, n) ==
  IF n # NIL
  THEN <<n>> \o rb_traverse_preorder(s, s.left[n])
         \o rb_traverse_preorder(s, s.right[n])
  ELSE <<>>

\* rb_verify_properties looking at the left subtrees only.
RECURSIVE rb_verify_properties_left_only(_, _, _, _)
rb_verify_properties_left_only(s, xn, black_count, c) ==
  IF xn = NIL
  THEN LET c1 == IF c = -1 THEN black_count ELSE c
       IN [ok |-> black_count = c1, c |-> c1]
  ELSE IF /\ s.color[xn] = "RED"
          /\ s.color[s.left[xn]] = "RED" \/ s.color[s.right[xn]] = "RED"
  THEN [ok |-> FALSE, c |-> c]
  ELSE
    LET new_black_count ==
          black_count + (IF s.color[xn] = "BLACK" THEN 1 ELSE 0)
    IN rb_verify_properties_left_only(s, s.left[xn], new_black_count, c)

\* rb_verify_properties(tree, x, black_count, &path_black_count): what it
\* returns (ok) and what it leaves in path_black_count (c), which comes in
\* as c. The right subtree is not visited when the left one fails (&&).
RECURSIVE rb_verify_properties(_, _, _, _)
rb_verify_properties(s, xn, black_count, c) ==
  IF xn = NIL
  THEN LET c1 == IF c = -1 THEN black_count ELSE c
       IN [ok |-> black_count = c1, c |-> c1]
  ELSE IF /\ s.color[xn] = "RED"
          /\ s.color[s.left[xn]] = "RED" \/ s.color[s.right[xn]] = "RED"
  THEN [ok |-> FALSE, c |-> c]
  ELSE
    LET new_black_count ==
          black_count + (IF s.color[xn] = "BLACK" THEN 1 ELSE 0)
        l == rb_verify_properties(s, s.left[xn], new_black_count, c)
    IN IF ~l.ok THEN l
       ELSE rb_verify_properties(s, s.right[xn], new_black_count, l.c)

\* The casts (long)node and (RBNode*)node_long: pointer and long are of
\* one width, the value is kept.
PtrToLong(p) == p

LongToPtr(v) == v

\* The list stack as the sequence of its values from the head on: push
\* inserts at index 0, pop takes the head.
list_stack_push(stack, value) == <<value>> \o stack

list_stack_is_empty(stack) == stack = <<>>

list_stack_pop(stack) ==
  IF list_stack_is_empty(stack)
  THEN [value |-> -1, stack |-> stack]
  ELSE [value |-> Head(stack), stack |-> Tail(stack)]

\* The loop of rb_traverse_dfs_iterative pushing the left child before the
\* right one.
RECURSIVE DfsIterativeLoopLeftFirst(_, _, _, _)
DfsIterativeLoopLeftFirst(s, stack, visited, search_value) ==
  IF list_stack_is_empty(stack) THEN [found |-> NULLP, visited |-> visited]
  ELSE
    LET popped == list_stack_pop(stack)
        node == LongToPtr(popped.value)
        is_search == search_value # -1
    IN IF is_search /\ s.data[node] = search_value
       THEN [found |-> node, visited |-> Append(visited, node)]
       ELSE
         LET st1 == IF s.left[node] # NIL
                    THEN list_stack_push(popped.stack, PtrToLong(s.left[node]))
                    ELSE popped.stack
             st2 == IF s.right[node] # NIL
                    THEN list_stack_push(st1, PtrToLong(s.right[node]))
                    ELSE st1
         IN DfsIterativeLoopLeftFirst(s, st2, Append(visited, node),
                                      search_value)

\* The while loop of rb_traverse_dfs_iterative.
RECURSIVE DfsIterativeLoop(_, _, _, _)
DfsIterativeLoop(s, stack, visited, search_value) ==
  IF list_stack_is_empty(stack) THEN [found |-> NULLP, visited |-> visited]
  ELSE
    LET popped == list_stack_pop(stack)
        node == LongToPtr(popped.value)
        is_search == search_value # -1
    IN IF is_search /\ s.data[node] = search_value
       THEN [found |-> node, visited |-> Append(visited, node)]
       ELSE
         LET st1 == IF s.right[node] # NIL
                    THEN list_stack_push(popped.stack, PtrToLong(s.right[node]))
                    ELSE popped.stack
             st2 == IF s.left[node] # NIL
                    THEN list_stack_push(st1, PtrToLong(s.left[node]))
                    ELSE st1
         IN DfsIterativeLoop(s, st2, Append(visited, node), search_value)

rb_traverse_dfs_iterative(s, n, search_value) ==
  IF n = NIL THEN [found |-> NULLP, visited |-> <<>>]
  ELSE DfsIterativeLoop(s, list_stack_push(<<>>, PtrToLong(n)), <<>>,
                        search_value)

\* rb_traverse_dfs_recursive without its test of what the left subtree
\* gave: the right subtree's answer is returned whatever the left one found.
RECURSIVE rb_traverse_dfs_recursive_left_dropped(_, _, _)
rb_traverse_dfs_recursive_left_dropped(s, n, search_value) ==
  IF n = NIL THEN [found |-> NULLP, visited |-> <<>>]
  ELSE IF search_value # -1 /\ s.data[n] = search_value
       THEN [found |-> n, visited |-> <<n>>]
  ELSE
    LET l == rb_traverse_dfs_recursive_left_dropped(s, s.left[n],
                                                    search_value)
        r == rb_traverse_dfs_recursive_left_dropped(s, s.right[n],
                                                    search_value)
    IN [found |-> r.found, visited |-> <<n>> \o l.visited \o r.visited]

\* rb_traverse_dfs_recursive comparing keys also when search_value is -1.
RECURSIVE rb_traverse_dfs_recursive_no_marker(_, _, _)
rb_traverse_dfs_recursive_no_marker(s, n, search_value) ==
  IF n = NIL THEN [found |-> NULLP, visited |-> <<>>]
  ELSE IF s.data[n] = search_value
       THEN [found |-> n, visited |-> <<n>>]
  ELSE
    LET l == rb_traverse_dfs_recursive_no_marker(s, s.left[n], search_value)
    IN IF l.found # NULLP
       THEN [found |-> l.found, visited |-> <<n>> \o l.visited]
       ELSE
         LET r == rb_traverse_dfs_recursive_no_marker(s, s.right[n],
                                                      search_value)
         IN [found |-> r.found, visited |-> <<n>> \o l.visited \o r.visited]

\* rb_traverse_dfs_recursive: what it returns (found) and the nodes it
\* visits, in order.
RECURSIVE rb_traverse_dfs_recursive(_, _, _)
rb_traverse_dfs_recursive(s, n, search_value) ==
  IF n = NIL THEN [found |-> NULLP, visited |-> <<>>]
  ELSE IF search_value # -1 /\ s.data[n] = search_value
       THEN [found |-> n, visited |-> <<n>>]
  ELSE
    LET l == rb_traverse_dfs_recursive(s, s.left[n], search_value)
    IN IF l.found # NULLP
       THEN [found |-> l.found, visited |-> <<n>> \o l.visited]
       ELSE
         LET r == rb_traverse_dfs_recursive(s, s.right[n], search_value)
         IN [found |-> r.found, visited |-> <<n>> \o l.visited \o r.visited]

\* The list queue as the sequence of its values from front to rear: enqueue
\* links the value behind the rear, dequeue takes the front.
list_queue_enqueue(queue, value) == Append(queue, value)

list_queue_is_empty(queue) == queue = <<>>

list_queue_dequeue(queue) ==
  IF list_queue_is_empty(queue)
  THEN [value |-> -1, queue |-> queue]
  ELSE [value |-> Head(queue), queue |-> Tail(queue)]

\* The loop of rb_traverse_bfs enqueuing the right child before the left
\* one.
RECURSIVE BfsLoopRightFirst(_, _, _, _)
BfsLoopRightFirst(s, queue, visited, search_value) ==
  IF list_queue_is_empty(queue) THEN [found |-> NULLP, visited |-> visited]
  ELSE
    LET dequeued == list_queue_dequeue(queue)
        node == LongToPtr(dequeued.value)
        is_search == search_value # -1
    IN IF is_search /\ s.data[node] = search_value
       THEN [found |-> node, visited |-> Append(visited, node)]
       ELSE
         LET q1 == IF s.right[node] # NIL
                   THEN list_queue_enqueue(dequeued.queue,
                                           PtrToLong(s.right[node]))
                   ELSE dequeued.queue
             q2 == IF s.left[node] # NIL
                   THEN list_queue_enqueue(q1, PtrToLong(s.left[node]))
                   ELSE q1
         IN BfsLoopRightFirst(s, q2, Append(visited, node), search_value)

\* The while loop of rb_traverse_bfs.
RECURSIVE BfsLoop(_, _, _, _)
BfsLoop(s, queue, visited, search_value) ==
  IF list_queue_is_empty(queue) THEN [found |-> NULLP, visited |-> visited]
  ELSE
    LET dequeued == list_queue_dequeue(queue)
        node == LongToPtr(dequeued.value)
        is_search == search_value # -1
    IN IF is_search /\ s.data[node] = search_value
       THEN [found |-> node, visited |-> Append(visited, node)]
       ELSE
         LET q1 == IF s.left[node] # NIL
                   THEN list_queue_enqueue(dequeued.queue,
                                           PtrToLong(s.left[node]))
                   ELSE dequeued.queue
             q2 == IF s.right[node] # NIL
                   THEN list_queue_enqueue(q1, PtrToLong(s.right[node]))
                   ELSE q1
         IN BfsLoop(s, q2, Append(visited, node), search_value)

rb_traverse_bfs(s, n, search_value) ==
  IF n = NIL THEN [found |-> NULLP, visited |-> <<>>]
  ELSE BfsLoop(s, list_queue_enqueue(<<>>, PtrToLong(n)), <<>>, search_value)

\* ---------------------------------------------------------------------
\* The program: calls of rb_insert_node and rb_delete on one tree
\* ---------------------------------------------------------------------

Insert(k) ==
  /\ pc = "idle"
  /\ nops < MaxOps
  /\ Cardinality(live) < MaxNodes
  /\ Set([rb_insert_node(S, k) EXCEPT !.nops = @ + 1])

IFixCase1 == pc = "ifix" /\ InsCase(S) = 1 /\ Set(fix_insert_case1(S))

IFixCase2 == pc = "ifix" /\ InsCase(S) = 2 /\ Set(fix_insert_case2(S))

IFixCase3 ==
  /\ pc \in {"ifix", "icase3"}
  /\ InsCase(S) = 3
  /\ Set(fix_insert_case3(S))

IFixExit == pc = "ifix" /\ InsCase(S) = 0 /\ Set(fix_insert_exit(S))

Delete(n) ==
  /\ pc = "idle"
  /\ nops < MaxOps
  /\ n \in live
  /\ Set([rb_delete(S, n) EXCEPT !.nops = @ + 1])

DFixCase1 == pc = "dfix" /\ DelCase(S) = 1 /\ Set(fix_delete_case1(S))

DFixCase2 ==
  /\ pc \in {"dfix", "dw"}
  /\ DelCase(S) = 2
  /\ Set(fix_delete_case2(S))

DFixCase3 ==
  /\ pc \in {"dfix", "dw"}
  /\ DelCase(S) = 3
  /\ Set(fix_delete_case3(S))

DFixCase4 ==
  /\ pc \in {"dfix", "dw", "dcase4"}
  /\ DelCase(S) = 4
  /\ Set(fix_delete_case4(S))

DFixExit == pc = "dfix" /\ DelCase(S) = 0 /\ Set(fix_delete_exit(S))

Next ==
  \/ \E k \in Keys : Insert(k)
  \/ IFixCase1
  \/ IFixCase2
  \/ IFixCase3
  \/ IFixExit
  \/ \E n \in Nodes : Delete(n)
  \/ DFixCase1
  \/ DFixCase2
  \/ DFixCase3
  \/ DFixCase4
  \/ DFixExit

Spec == Init /\ [][Next]_vars

\* The tree used as a set: a caller that inserts a key only when rb_search
\* does not find it, so that all keys in the tree are distinct.
InsertAbsent(k) ==
  /\ pc = "idle"
  /\ nops < MaxOps
  /\ Cardinality(live) < MaxNodes
  /\ rb_search(S, root, k) = NIL
  /\ Set([rb_insert_node(S, k) EXCEPT !.nops = @ + 1])

NextDistinct ==
  \/ \E k \in WideKeys : InsertAbsent(k)
  \/ IFixCase1
  \/ IFixCase2
  \/ IFixCase3
  \/ IFixExit
  \/ \E n \in Nodes : Delete(n)
  \/ DFixCase1
  \/ DFixCase2
  \/ DFixCase3
  \/ DFixCase4
  \/ DFixExit

SpecDistinct == Init /\ [][NextDistinct]_vars

\* A tree that only grows: calls of rb_insert_node alone.
InsertOnly(k) ==
  /\ pc = "idle"
  /\ nops < MaxInserts
  /\ Cardinality(live) < MaxNodes
  /\ Set([rb_insert_node(S, k) EXCEPT !.nops = @ + 1])

NextInserts ==
  \/ \E k \in Keys : InsertOnly(k)
  \/ IFixCase1
  \/ IFixCase2
  \/ IFixCase3
  \/ IFixExit

SpecInserts == Init /\ [][NextInserts]_vars

\* The same calls, each run to its return in one step: the states between
\* two calls, where the queries and traversals are called.
InsertCall(k) ==
  /\ pc = "idle"
  /\ nops < MaxCalls
  /\ Cardinality(live) < MaxNodes
  /\ Set(Run([rb_insert_node(S, k) EXCEPT !.nops = @ + 1]))

DeleteCall(n) ==
  /\ pc = "idle"
  /\ nops < MaxCalls
  /\ n \in live
  /\ Set(Run([rb_delete(S, n) EXCEPT !.nops = @ + 1]))

NextCalls ==
  \/ \E k \in Keys : InsertCall(k)
  \/ \E n \in Nodes : DeleteCall(n)

SpecCalls == Init /\ [][NextCalls]_vars

NonDecreasing(q) == \A i \in 1..(Len(q) - 1) : q[i] <= q[i + 1]

\* The program that builds one tree from one sorted array.
\* The non-decreasing arrays of at most n keys.
RECURSIVE SortedUpTo(_)
SortedUpTo(n) ==
  IF n = 0 THEN {<<>>}
  ELSE LET shorter == SortedUpTo(n - 1)
           longest == {a \in shorter : Len(a) = n - 1}
       IN shorter \cup
            {Append(p[1], p[2]) :
               p \in {r \in longest \X Keys :
                        r[1] = <<>> \/ r[1][Len(r[1])] <= r[2]}}

SortedArrays == SortedUpTo(MaxNodes)

InitArray == \E a \in SortedArrays : Start(a, NoLimit)

CreateFromSortedArray ==
  /\ pc = "start"
  /\ Set(rb_create_from_sorted_array(S, arr, Len(arr)))

NextArray == CreateFromSortedArray

SpecArray == InitArray /\ [][NextArray]_vars

\* Every way the program comes to hold a tree: built from a sorted array or
\* created empty, then changed by calls of rb_insert_node and rb_delete.
InsertInto(k) ==
  /\ pc = "idle"
  /\ nops < (IF arr = <<>> THEN MaxCalls ELSE MaxBuiltCalls)
  /\ Cardinality(live) < MaxNodes
  /\ Set(Run([rb_insert_node(S, k) EXCEPT !.nops = @ + 1]))

DeleteFrom(n) ==
  /\ pc = "idle"
  /\ nops < (IF arr = <<>> THEN MaxCalls ELSE MaxBuiltCalls)
  /\ n \in live
  /\ Set(Run([rb_delete(S, n) EXCEPT !.nops = @ + 1]))

InitLinks == Init \/ InitArray

NextLinks ==
  \/ CreateFromSortedArray
  \/ \E k \in Keys : InsertInto(k)
  \/ \E n \in Nodes : DeleteFrom(n)

SpecLinks == InitLinks /\ [][NextLinks]_vars

\* The program from before rb_create_tree on, with a malloc that fails
\* once it has granted the allocations of its budget.
InitAlloc == \E b \in 0..MaxBudget : Start(<<>>, b)

CreateTree == pc = "start" /\ Set(rb_create_tree(S))

NextAlloc == CreateTree \/ Next

SpecAlloc == InitAlloc /\ [][NextAlloc]_vars

\* ---------------------------------------------------------------------
\* Properties
\* ---------------------------------------------------------------------

Idle == pc = "idle"

\* Some rb_delete has returned: fewer nodes than calls.
SomeDeleteDone == Idle /\ nops > Cardinality(live)

\* The nodes of the subtree rooted at n (n included), by child links.
RECURSIVE Grow(_)
Grow(F) ==
  LET G == F \cup (({left[n] : n \in F} \cup {right[n] : n \in F}) \cap Nodes)
  IN IF G = F THEN F ELSE Grow(G)

Subtree(n) == IF n \in Nodes THEN Grow({n}) ELSE {}

InorderKeys(s) ==
  LET io == rb_traverse_inorder(s, s.root)
  IN [i \in 1..Len(io) |-> s.data[io[i]]]

\* C1: after every completed rb_insert_node or rb_delete, every node has
\* only keys <= its own in its left subtree and only keys >= its own in its
\* right subtree, and rb_traverse_inorder yields a non-decreasing sequence
\* that holds every live node.
BstOrder ==
  Idle =>
    /\ \A n \in live :
         /\ \A m \in Subtree(left[n]) : data[m] <= data[n]
         /\ \A m \in Subtree(right[n]) : data[m] >= data[n]
    /\ NonDecreasing(InorderKeys(S))
    /\ Len(InorderKeys(S)) = Cardinality(live)

\* A duplicate key sits in a left subtree (a rotation put it there) and a
\* delete has completed.
BstOrderWitness ==
  /\ SomeDeleteDone
  /\ \E n \in live : left[n] # NIL /\ data[left[n]] = data[n]
  /\ Cardinality(live) >= 4

\* C2: after every completed rb_insert_node or rb_delete no RED node has a
\* RED child.
NoRedRed ==
  Idle =>
    \A n \in live :
      color[n] = "RED" => color[left[n]] # "RED" /\ color[right[n]] # "RED"

NoRedRedWitness ==
  /\ SomeDeleteDone
  /\ \E n \in live : /\ color[n] = "RED"
                     /\ left[n] # NIL
                     /\ right[n] # NIL
                     /\ color[parent[n]] = "BLACK"

\* The numbers of BLACK nodes met on the paths from n down to the sentinel.
RECURSIVE BlackCounts(_)
BlackCounts(n) ==
  IF n = NIL THEN {0}
  ELSE {c + (IF color[n] = "BLACK" THEN 1 ELSE 0) :
          c \in BlackCounts(left[n]) \cup BlackCounts(right[n])}

\* C3: after every completed rb_insert_node or rb_delete all paths from a
\* node down to the sentinel hold the same number of BLACK nodes.
BlackHeightConsistent ==
  Idle =>
    \A n \in live :
      /\ Cardinality(BlackCounts(n)) = 1
      /\ BlackCounts(left[n]) = BlackCounts(right[n])

BlackHeightWitness ==
  /\ SomeDeleteDone
  /\ root # NIL
  /\ BlackCounts(root) = {2}
  /\ \E n \in live : color[n] = "RED"

\* C4: after every completed rb_insert_node or rb_delete the root of a
\* non-empty tree is BLACK and its parent is the sentinel.
RootBlack ==
  (Idle /\ root # NIL) => color[root] = "BLACK" /\ parent[root] = NIL

\* The root is not the node first linked as root, and a delete has run.
RootBlackWitness ==
  /\ SomeDeleteDone
  /\ root # NIL
  /\ left[root] # NIL
  /\ right[root] # NIL
  /\ \E n \in live : n < root

\* C5: after any interleaving of inserts and deletes, rb_search from the
\* root returns a node keyed k exactly when more inserts of k than deletes
\* of k-keyed nodes have completed, and the sentinel otherwise.
SearchRoundTrip ==
  Idle =>
    \A k \in Keys :
      LET r == rb_search(S, root, k)
      IN IF net[k] > 0 THEN r \in live /\ data[r] = k ELSE r = NIL

\* One key is held twice, another was inserted and deleted or never
\* inserted, and a delete has completed.
SearchRoundTripWitness ==
  /\ SomeDeleteDone
  /\ \E k \in Keys : net[k] >= 2
  /\ \E k \in Keys : net[k] = 0 /\ rb_search(S, root, k) = NIL
  /\ Cardinality(live) >= 3

RECURSIVE Pow2(_)
Pow2(n) == IF n <= 0 THEN 1 ELSE 2 * Pow2(n - 1)

\* C6: for a tree of n nodes, rb_height <= 2*log2(n+1), that is
\* 2^height <= (n+1)^2, and also 2^ceil(height/2) <= n+1.
HeightBound ==
  Idle =>
    LET h == rb_height(S, root)
        n == rb_count_nodes(S, root)
    IN /\ Pow2(h) <= (n + 1) * (n + 1)
       /\ Pow2((h + 1) \div 2) <= n + 1

\* The highest tree six nodes can form: red and black alternate on one path.
HeightBoundWitness ==
  /\ Idle
  /\ rb_height(S, root) = 4
  /\ rb_count_nodes(S, root) = 6

\* C7: deleting the node rb_search returns for a present key k and then
\* inserting k again gives the inorder key sequence the tree had before.
DeleteReinsert ==
  Idle =>
    \A k \in Keys :
      LET n == rb_search(S, root, k)
      IN n # NIL =>
           InorderKeys(Run(rb_insert_node(Run(rb_delete(S, n)), k)))
             = InorderKeys(S)

\* The round trip gives back the keys in a tree of another shape.
DeleteReinsertWitness ==
  /\ Idle
  /\ \E k \in Keys :
       LET n == rb_search(S, root, k)
           t == Run(rb_insert_node(Run(rb_delete(S, n)), k))
       IN /\ n # NIL
          /\ left[n] # NIL
          /\ right[n] # NIL
          /\ t.pc = "idle"
          /\ InorderKeys(t) = InorderKeys(S)
          /\ t.data[t.root] # data[root]

\* C8: the sentinel is BLACK in every state, the states inside the insert
\* and delete fix-up loops included.
SentinelBlack == color[NIL] = "BLACK"

\* Inside delete fix-up, between two cases, with the sentinel as x.
SentinelBlackWitness ==
  /\ pc \in {"dw", "dcase4"}
  /\ x = NIL
  /\ parent[NIL] \in live

InDelete == pc \in {"dfix", "dw", "dcase4"}

\* What one step of rb_delete(tree, zn) may change of the set of nodes and
\* of their keys.
DeleteFrameOf(zn) ==
  /\ pc' = "idle" => live' = live \ {zn}
  /\ pc' # "idle" => live' = live /\ arg' = zn
  /\ \A m \in live \ {zn} : data'[m] = data[m]

\* C9: rb_delete(tree, z) removes exactly z from the set of live nodes and
\* leaves the key of every other node as it was, in each of its steps.
DeleteFrame ==
  [][/\ \A n \in Nodes : Delete(n) => DeleteFrameOf(n)
     /\ InDelete => DeleteFrameOf(arg)]_vars

\* Two-children case: the successor has taken over z's place and children
\* while z, not yet freed, still points at them.
DeleteFrameWitness ==
  /\ InDelete
  /\ left[arg] # NIL
  /\ right[arg] # NIL
  /\ parent[left[arg]] # arg
  /\ parent[left[arg]] = parent[right[arg]]

\* The ancestors of n, n included, by parent links.
RECURSIVE Up(_)
Up(F) ==
  LET G == F \cup ({parent[n] : n \in F} \cap Nodes)
  IN IF G = F THEN F ELSE Up(G)

Ancestors(n) == Up({n})

DistinctKeys == \A n, m \in live : data[n] = data[m] => n = m

\* C10: in a tree with distinct keys, for present keys a <= b, rb_find_lca
\* returns the common ancestor-or-self of the nodes holding a and b that
\* lies below every other common ancestor, and its key is within a..b.
LcaCorrect ==
  (Idle /\ DistinctKeys) =>
    \A a, b \in WideKeys :
      (a <= b /\ net[a] > 0 /\ net[b] > 0) =>
        LET m == rb_find_lca(S, root, a, b)
            na == CHOOSE n \in live : data[n] = a
            nb == CHOOSE n \in live : data[n] = b
            common == Ancestors(na) \cap Ancestors(nb)
        IN /\ m \in common
           /\ \A c \in common : c \in Ancestors(m)
           /\ a <= data[m]
           /\ data[m] <= b

\* The tree built from 50,30,70,20,40,60 (the example without its last key),
\* the keys written 2,0,4,-1,1,3 in the same order: the answer for 20 and 40
\* (-1 and 1) is the node of 30 (0).
LcaCorrectWitness ==
  /\ Idle
  /\ Cardinality(live) = 6
  /\ DistinctKeys
  /\ data[root] = 2
  /\ data[left[root]] = 0
  /\ data[right[root]] = 4
  /\ data[left[left[root]]] = -1
  /\ data[right[left[root]]] = 1
  /\ rb_find_lca(S, root, -1, 1) = left[root]

\* C11: rb_find_lca(tree, root, n1, n2) returns the sentinel whenever n1 or
\* n2 is not a key of the tree.
LcaAbsentNil ==
  Idle =>
    \A a, b \in Keys :
      (net[a] = 0 \/ net[b] = 0) => rb_find_lca(S, root, a, b) = NIL

\* The nodes of the tree, as rb_traverse_inorder reaches them from the root.
InTree ==
  LET io == rb_traverse_inorder(S, root)
  IN {io[i] : i \in 1..Len(io)}

\* What a rotation about a pivot may change: t is the state after it, io
\* the inorder sequence of nodes before it, touched the pivot, its promoted
\* child, the root of the transferred subtree and the pivot's former parent,
\* the sentinel not among them.
RotationFrameOf(t, io, touched, atRoot) ==
  /\ t.pc = pc
  /\ rb_traverse_inorder(t, t.root) = io
  /\ t.color = color
  /\ t.data = data
  /\ t.live = live
  /\ \A n \in (live \cup {NIL}) \ touched :
       /\ t.left[n] = left[n]
       /\ t.right[n] = right[n]
       /\ t.parent[n] = parent[n]
  /\ atRoot \/ t.root = root

\* C12: rb_rotate_left(tree, x) with x->right != nil and rb_rotate_right(tree,
\* y) with y->left != nil keep the inorder sequence of nodes, every color and
\* every key; only the links of the pivot, of its promoted child, of the
\* transferred subtree's root and of the pivot's former parent (or
\* tree->root) change.
RotationFrame ==
  LET io == rb_traverse_inorder(S, root)
  IN \A i \in 1..Len(io) :
       LET n == io[i]
       IN /\ right[n] # NIL =>
               RotationFrameOf(rb_rotate_left(S, n), io,
                               {n, right[n], left[right[n]], parent[n]} \ {NIL},
                               parent[n] = NIL)
          /\ left[n] # NIL =>
               RotationFrameOf(rb_rotate_right(S, n), io,
                               {n, left[n], right[left[n]], parent[n]} \ {NIL},
                               parent[n] = NIL)

\* Delete fix-up has just rotated about x's parent (Case 1); a further left
\* rotation about a node below the root would hand over a whole subtree.
RotationFrameWitness ==
  /\ pc = "dw"
  /\ rots = 1
  /\ \E n \in InTree :
       /\ right[n] # NIL
       /\ left[right[n]] # NIL
       /\ parent[n] # NIL
       /\ LET t == rb_rotate_left(S, n)
          IN /\ t.right[n] = left[right[n]]
             /\ t.parent[left[right[n]]] = n
             /\ t.left[right[n]] = n
             /\ t.left[parent[n]] = right[n] \/ t.right[parent[n]] = right[n]

\* The place of node n in the sequence q of distinct nodes.
Pos(q, n) == CHOOSE i \in 1..Len(q) : q[i] = n

\* q holds every node of the tree once.
EachNodeOnce(q) ==
  /\ Len(q) = Cardinality(InTree)
  /\ {q[i] : i \in 1..Len(q)} = InTree

\* C13: called to traverse (search value -1), rb_traverse_dfs_iterative
\* visits the nodes rb_traverse_preorder and rb_traverse_dfs_recursive visit,
\* in the same order: each node once, a node before its whole left subtree
\* and that before its whole right subtree.
DfsIterativeIsPreorder ==
  Idle =>
    LET q == rb_traverse_dfs_iterative(S, root, -1).visited
    IN /\ q = rb_traverse_preorder(S, root)
       /\ q = rb_traverse_dfs_recursive(S, root, -1).visited
       /\ EachNodeOnce(q)
       /\ \A n \in InTree :
            /\ \A m \in Subtree(left[n]) \cup Subtree(right[n]) :
                 Pos(q, n) < Pos(q, m)
            /\ \A m \in Subtree(left[n]) :
                 \A k \in Subtree(right[n]) : Pos(q, m) < Pos(q, k)

\* The left child of the root has a right child, so that the stack holds
\* two pending right children at once.
DfsIterativeIsPreorderWitness ==
  /\ Idle
  /\ root # NIL
  /\ right[root] # NIL
  /\ left[root] # NIL
  /\ left[left[root]] # NIL
  /\ right[left[root]] # NIL
  /\ Len(rb_traverse_dfs_iterative(S, root, -1).visited) >= 5

\* The nodes below and at n, each paired with its depth, n being at depth d.
RECURSIVE Levels(_, _)
Levels(n, d) ==
  IF n = NIL THEN {}
  ELSE {<<n, d>>} \cup Levels(left[n], d + 1) \cup Levels(right[n], d + 1)

\* C14: called to traverse (search value -1), rb_traverse_bfs visits every
\* node once, every node of depth d before any node of depth d+1 and the
\* nodes of one depth from left to right, that is in their inorder order.
BfsLevelOrder ==
  Idle =>
    LET q == rb_traverse_bfs(S, root, -1).visited
        io == rb_traverse_inorder(S, root)
        lv == Levels(root, 0)
        depth == [i \in 1..Len(q) |-> CHOOSE d \in 0..Len(q) : <<q[i], d>> \in lv]
    IN /\ EachNodeOnce(q)
       /\ \A i, j \in 1..Len(q) :
            i < j =>
              /\ depth[i] <= depth[j]
              /\ depth[i] = depth[j] => Pos(io, q[i]) < Pos(io, q[j])

\* Three levels, the lowest with nodes below both children of the root, so
\* that level order differs from preorder.
BfsLevelOrderWitness ==
  /\ Idle
  /\ root # NIL
  /\ left[root] # NIL
  /\ right[root] # NIL
  /\ right[left[root]] # NIL
  /\ left[right[root]] # NIL
  /\ rb_traverse_bfs(S, root, -1).visited # rb_traverse_preorder(S, root)

\* The values that make the traversals search: -1 makes them traverse.
SearchKeys == Keys \ {-1}

\* What a search for k has to give, order being the function's own visit
\* order and r what the search gave: the first node of the order keyed k,
\* with nothing visited after it, or NULL after the whole order.
FirstMatch(order, r, k) ==
  LET hits == {i \in 1..Len(order) : data[order[i]] = k}
  IN IF hits = {}
     THEN r.found = NULLP /\ r.visited = order
     ELSE LET first == CHOOSE i \in hits : \A j \in hits : i <= j
          IN r.found = order[first] /\ r.visited = SubSeq(order, 1, first)

\* C15: called with a search key k (any value but -1, which asks for a
\* traversal), rb_traverse_dfs_iterative, rb_traverse_dfs_recursive and
\* rb_traverse_bfs each return the first node of their own visit order keyed
\* k and visit nothing after it, or NULL when no node is keyed k; each finds
\* a node exactly when rb_search does.
SearchFirstMatch ==
  Idle =>
    \A k \in SearchKeys :
      LET it == rb_traverse_dfs_iterative(S, root, k)
          rec == rb_traverse_dfs_recursive(S, root, k)
          bfs == rb_traverse_bfs(S, root, k)
          hit == rb_search(S, root, k) # NIL
      IN /\ FirstMatch(rb_traverse_dfs_iterative(S, root, -1).visited, it, k)
         /\ FirstMatch(rb_traverse_dfs_recursive(S, root, -1).visited, rec, k)
         /\ FirstMatch(rb_traverse_bfs(S, root, -1).visited, bfs, k)
         /\ (it.found # NULLP) <=> hit
         /\ (rec.found # NULLP) <=> hit
         /\ (bfs.found # NULLP) <=> hit

\* One search key is held by two nodes, the first of them below the root:
\* the searches return it, the depth-first ones after the root's left
\* subtree, and visit nothing after it; the other search key is absent.
SearchFirstMatchWitness ==
  /\ Idle
  /\ \E k, a \in SearchKeys :
       LET it == rb_traverse_dfs_iterative(S, root, k)
           bfs == rb_traverse_bfs(S, root, k)
       IN /\ net[k] = 2
          /\ it.found \in live
          /\ it.found # root
          /\ bfs.found = it.found
          /\ left[root] # NIL
          /\ Len(it.visited) >= 3
          /\ Len(it.visited) < Cardinality(live)
          /\ net[a] = 0
          /\ rb_traverse_dfs_recursive(S, root, a).found = NULLP

\* rb_create_from_sorted_array has returned a tree built from a non-empty
\* array.
Built == pc = "idle" /\ arr # <<>>

\* C16: for every non-empty ascending array arr of size n, the tree
\* rb_create_from_sorted_array(arr, n) returns has n nodes, is ordered as a
\* binary search tree and has arr as its inorder key sequence.
SortedArrayInorder ==
  Built =>
    /\ rb_count_nodes(S, root) = Len(arr)
    /\ Cardinality(live) = Len(arr)
    /\ \A n \in InTree :
         /\ \A m \in Subtree(left[n]) : data[m] <= data[n]
         /\ \A m \in Subtree(right[n]) : data[m] >= data[n]
    /\ InorderKeys(S) = arr

\* Seven keys, not all the same: 4 at the root of 1..7, written -1..1.
SortedArrayInorderWitness ==
  /\ Built
  /\ Len(arr) = 7
  /\ arr[1] < arr[4]
  /\ arr[4] < arr[7]
  /\ data[root] = arr[4]
  /\ InorderKeys(S) = arr

\* C17: for every non-empty sorted array of size n the tree has the least
\* height h with 2^h - 1 >= n, and at every node the numbers of nodes in the
\* left and in the right subtree differ by at most one.
SortedArrayBalanced ==
  Built =>
    LET h == rb_height(S, root)
        n == Len(arr)
    IN /\ Pow2(h) - 1 >= n
       /\ Pow2(h - 1) - 1 < n
       /\ \A m \in InTree :
            LET d == rb_count_nodes(S, left[m]) - rb_count_nodes(S, right[m])
            IN d \in {-1, 0, 1}

\* Height 4 for fifteen keys, every level full.
SortedArrayBalancedWitness ==
  /\ Built
  /\ Len(arr) = 15
  /\ rb_height(S, root) = 4
  /\ rb_count_nodes(S, left[root]) = 7
  /\ rb_count_nodes(S, right[root]) = 7

\* The sum of f over the set D of its arguments.
RECURSIVE SumOver(_, _)
SumOver(f, D) ==
  IF D = {} THEN 0
  ELSE LET d == CHOOSE e \in D : TRUE
       IN f[d] + SumOver(f, D \ {d})

\* The calls of rb_insert_node that have returned less the calls of
\* rb_delete that have.
CompletedNet == SumOver(net, DOMAIN net)

\* C18: after any sequence of rb_insert_node and rb_delete of live nodes,
\* rb_count_nodes(tree, root) is the number of completed inserts less the
\* number of completed deletes, and 0 for the empty tree.
CountIsNet ==
  Idle =>
    /\ rb_count_nodes(S, root) = CompletedNet
    /\ rb_count_nodes(S, root) = Cardinality(live)
    /\ root = NIL => rb_count_nodes(S, root) = 0

\* Four inserts and two deletes have returned, one key is held twice.
CountIsNetWitness ==
  /\ Idle
  /\ nops = 6
  /\ rb_count_nodes(S, root) = 2
  /\ right[root] # NIL
  /\ \E k \in Keys : net[k] = 2

\* The numbers of BLACK nodes on the paths from n down to the sentinel, n
\* and the sentinel that ends the path counted.
PathBlacks(n) == {c + 1 : c \in BlackCounts(n)}

\* C19: on every tree reached by rb_insert_node and rb_delete,
\* rb_black_height(tree, x), which descends through left children only, is
\* the number of BLACK nodes on every path from x down to the sentinel, x
\* and the sentinel counted; it is 1 for the sentinel and the empty tree.
BlackHeightByLeft ==
  Idle =>
    /\ \A n \in InTree \cup {NIL} : PathBlacks(n) = {rb_black_height(S, n)}
    /\ rb_black_height(S, NIL) = 1
    /\ root = NIL => rb_black_height(S, root) = 1

\* After a delete: black height 3 at the root, and a node whose left child
\* is the sentinel while its right child is a RED node.
BlackHeightByLeftWitness ==
  /\ SomeDeleteDone
  /\ root # NIL
  /\ rb_black_height(S, root) = 3
  /\ \E n \in InTree :
       left[n] = NIL /\ right[n] # NIL /\ color[right[n]] = "RED"

\* A step that calls malloc when malloc fails: rb_create_tree with fewer than
\* the two allocations it asks for, rb_insert_node with none.
AllocationFails ==
  \/ CreateTree /\ budget \in {0, 1}
  \/ budget = 0 /\ \E k \in Keys : Insert(k)

\* C20: every allocation failure while creating a node, a tree or the tree's
\* sentinel ends the process at once (exit), nothing read or written through
\* the failed allocation and no link of the tree modified.
AllocationFailureExits ==
  [][AllocationFails =>
       /\ pc' = "exited"
       /\ UNCHANGED <<root, left, right, parent, color, data, live>>]_vars

\* C21: one call of rb_insert_node rotates at most twice: not at all as long
\* as only Case 1 applies, then at most once in Case 2, which Case 3 follows
\* at once with one rotation, after which the loop is left.
InsertRotations ==
  [][/\ IFixCase1 => rots = 0 /\ rots' = 0
     /\ IFixCase2 =>
          rots = 0 /\ rots' = 1 /\ pc' = "icase3" /\ (InsCase(S) = 3)'
     /\ IFixCase3 =>
          /\ rots <= 1
          /\ rots' = rots + 1
          /\ (pc = "ifix" /\ InsCase(S) = 0)'
     /\ IFixExit => rots <= 2]_vars

\* Case 2 and Case 3 have rotated, z is the former parent of the new node:
\* two rotations, and the loop is about to be left.
InsertRotationsWitness ==
  /\ pc = "ifix"
  /\ rots = 2
  /\ InsCase(S) = 0
  /\ data[z] # arg \/ left[z] # NIL \/ right[z] # NIL

\* C22: one call of rb_delete rotates at most three times (Case 1, Case 3,
\* Case 4); Case 2 reached from Case 1 leaves x RED, so the loop is left;
\* Case 4 sets x to the root, so the loop is left.
DeleteRotations ==
  [][/\ DFixCase1 => rots = 0 /\ rots' = 1 /\ pc' = "dw"
     /\ DFixCase2 =>
          /\ rots' = rots
          /\ pc = "dw" => (pc = "dfix" /\ color[x] = "RED" /\ DelCase(S) = 0)'
     /\ DFixCase3 => rots <= 1 /\ rots' = rots + 1 /\ pc' = "dcase4"
     /\ DFixCase4 =>
          /\ rots <= 2
          /\ rots' = rots + 1
          /\ (pc = "dfix" /\ x = root /\ DelCase(S) = 0)'
     /\ DFixExit => rots <= 3]_vars

\* Case 1, Case 3 and Case 4 have each rotated in one call.
DeleteRotationsWitness == pc = "dfix" /\ rots = 3 /\ x = root

\* Case 1 and then Case 2 have run: one rotation, x is RED.
DeleteCase1Case2Reached == pc = "dfix" /\ rots = 1 /\ color[x] = "RED"

\* The rotation the next fix-up step calls, if it calls one: its pivot and
\* whether it is rb_rotate_left.
RotationCalls ==
  IF pc \in {"ifix", "icase3"} /\ InsCase(S) = 2
    THEN {[l |-> InsSide(S) = "L", at |-> parent[z]]}
  ELSE IF pc \in {"ifix", "icase3"} /\ InsCase(S) = 3
    THEN {[l |-> InsSide(S) = "R", at |-> parent[parent[z]]]}
  ELSE IF pc \in {"dfix", "dw", "dcase4"} /\ DelCase(S) \in {1, 4}
    THEN {[l |-> DelSide(S) = "L", at |-> parent[x]]}
  ELSE IF pc \in {"dfix", "dw", "dcase4"} /\ DelCase(S) = 3
    THEN {[l |-> DelSide(S) = "R", at |-> DelW(S)]}
  ELSE {}

\* C23: every rotation the fix-ups call has a pivot in the tree whose promoted
\* child (x->right for rb_rotate_left, y->left for rb_rotate_right) is a real
\* node, and the sibling w that delete-fixup dereferences is a real node.
RotationChildPresent ==
  /\ \A c \in RotationCalls :
       /\ c.at \in live
       /\ (IF c.l THEN right[c.at] ELSE left[c.at]) \in live
  /\ pc \in {"dfix", "dw", "dcase4"} /\ DelCase(S) # 0 => DelW(S) \in live

\* Delete-fixup runs with the sentinel as x and is about to rotate about its
\* sibling (Case 3).
RotationChildPresentWitness ==
  /\ pc \in {"dfix", "dw"}
  /\ x = NIL
  /\ DelCase(S) = 3
  /\ RotationCalls # {}

\* A call is between its entry into a fix-up loop and its return.
Running == pc \in {"ifix", "icase3", "dfix", "dw", "dcase4"}

\* The program in which a call that has started keeps running: the code is
\* sequential and has no suspension point inside a call. This is weak
\* fairness of the fix-up steps, written out: a fix-up step is enabled
\* exactly in the Running states (StepDefined), and every step Next allows
\* from a Running state is a fix-up step.
Fairness == []<>(~Running) \/ []<><<Running>>_vars

SpecLive == Spec /\ Fairness

\* In a Running state the running call has a next step, which changes the
\* state and is not undefined behaviour.
StepDefined == Running => Step(S) # S /\ Step(S).pc # "undefined"

\* The number of parent links from n up to the root of s.
RECURSIVE DepthFrom(_, _, _)
DepthFrom(s, n, fuel) ==
  IF n = s.root \/ fuel = 0 THEN 0
  ELSE 1 + DepthFrom(s, s.parent[n], fuel - 1)

DepthOf(s, n) == DepthFrom(s, n, MaxNodes + 1)

\* An insert-fixup iteration leaves z with a non-RED parent, or z two levels up.
InsertIterationProgress ==
  pc = "ifix" /\ InsCase(S) # 0 =>
    LET t == Iteration(S)
    IN /\ t.pc = "ifix"
       /\ \/ InsCase(t) = 0
          \/ DepthOf(t, t.z) = DepthOf(S, z) - 2

\* A delete-fixup iteration sets x to the root or moves x one level up.
DeleteIterationCloser ==
  pc = "dfix" /\ DelCase(S) # 0 =>
    LET t == Iteration(S)
    IN /\ t.pc = "dfix"
       /\ \/ t.x = t.root
          \/ DepthOf(t, t.x) = DepthOf(S, x) - 1

\* The same, with the iteration that runs Case 1 and then Case 2: it leaves x
\* RED at the depth x had, and the loop is left.
DeleteIterationProgress ==
  pc = "dfix" /\ DelCase(S) # 0 =>
    LET t == Iteration(S)
    IN /\ t.pc = "dfix"
       /\ \/ t.x = t.root
          \/ DepthOf(t, t.x) = DepthOf(S, x) - 1
          \/ /\ DelCase(S) = 1
             /\ DepthOf(t, t.x) = DepthOf(S, x)
             /\ t.color[t.x] = "RED"
             /\ DelCase(t) = 0

\* C24 as stated: every call terminates, each insert-fixup iteration exits or
\* moves z two levels closer to the root, each delete-fixup iteration sets x
\* to the root or moves x one level closer to the root.
TerminatesCloser ==
  /\ []StepDefined
  /\ []InsertIterationProgress
  /\ []DeleteIterationCloser
  /\ Running ~> pc = "idle"

\* C24: every call of rb_insert_node and rb_delete returns; each insert-fixup
\* iteration exits or moves z two levels closer to the root; each
\* delete-fixup iteration sets x to the root, moves x one level closer to the
\* root, or (Case 1 then Case 2) leaves x RED at its depth and ends the loop.
Terminates ==
  /\ []StepDefined
  /\ []InsertIterationProgress
  /\ []DeleteIterationProgress
  /\ Running ~> pc = "idle"

\* A delete-fixup iteration that runs Case 1 and then Case 2 is about to
\* start; it ends with x below the root, at the depth x has now.
TerminatesWitness ==
  /\ pc = "dfix"
  /\ DelCase(S) = 1
  /\ DelCase(Step(S)) = 2
  /\ Iteration(S).x # Iteration(S).root
  /\ DepthOf(Iteration(S), Iteration(S).x) = DepthOf(S, x)

\* The RED nodes of the tree whose parent is RED.
RedRedBelow == {n \in live : color[n] = "RED" /\ color[parent[n]] = "RED"}

\* What holds whenever rb_fix_insert_violations tests its while condition.
InsertLoopInvariant ==
  pc = "ifix" =>
    /\ z \in live
    /\ color[z] = "RED"
    /\ Cardinality(BlackCounts(root)) = 1
    /\ RedRedBelow \subseteq {z}
    /\ color[root] = "RED" => root = z
    /\ color[NIL] = "BLACK"

\* C25: at the start of every insert-fixup iteration z is RED, all paths
\* from the root to the sentinel hold the same number of BLACK nodes, and the
\* only violations possible are one red-red edge between z and z->parent or
\* a RED root that is z; a Case-1 step takes z, and with it the violation,
\* exactly two levels up.
InsertFixupInvariant ==
  /\ []InsertLoopInvariant
  /\ [][IFixCase1 =>
          /\ z \in RedRedBelow
          /\ z' = parent[parent[z]]
          /\ DepthOf(S, z) >= 2
          /\ (DepthOf(S, z))' = DepthOf(S, z) - 2
          /\ UNCHANGED <<parent, left, right, root>>]_vars

\* A Case-1 step has moved z up two levels and left a red-red edge there.
InsertFixupInvariantWitness ==
  /\ pc = "ifix"
  /\ RedRedBelow = {z}
  /\ left[z] # NIL
  /\ right[z] # NIL
  /\ rots = 0

\* C26: when rb_delete calls rb_delete_fixup(tree, x), and at every later
\* test of its while condition, x->parent is the sentinel if x is the root
\* and otherwise the tree node one of whose child links is x, the shared
\* sentinel as x included; the sibling is then that node's other child.
FixupParentLinked ==
  pc = "dfix" =>
    IF x = root THEN parent[x] = NIL
    ELSE /\ parent[x] \in live \ {arg}
         /\ parent[x] \in Subtree(root)
         /\ left[parent[x]] = x \/ right[parent[x]] = x
         /\ left[parent[x]] # right[parent[x]]
         /\ DelW(S) \in {left[parent[x]], right[parent[x]]} \ {x}

\* rb_delete has just called the fix-up with the sentinel as x, in the branch
\* where the successor y was the right child of the deleted node.
FixupParentLinkedWitness ==
  /\ pc = "dfix"
  /\ rots = 0
  /\ x = NIL
  /\ left[arg] # NIL
  /\ right[arg] # NIL
  /\ parent[left[arg]] = right[arg]
  /\ parent[x] = right[arg]

\* C27: in the tree rb_create_from_sorted_array builds from n >= 1 keys the
\* root is BLACK and every other node RED, every path from the root to the
\* sentinel holds exactly one BLACK node besides the sentinel, and a RED node
\* has a RED child exactly when n >= 4.
SortedArrayColors ==
  Built =>
    /\ color[root] = "BLACK"
    /\ \A n \in live \ {root} : color[n] = "RED"
    /\ color[NIL] = "BLACK"
    /\ BlackCounts(root) = {1}
    /\ (\E n \in live : color[n] = "RED" /\ color[parent[n]] = "RED")
         <=> Len(arr) >= 4

\* Four keys: the root, its two RED children and one RED grandchild.
SortedArrayColorsWitness ==
  /\ Built
  /\ Len(arr) = 4
  /\ \E n \in live : /\ color[n] = "RED"
                     /\ color[parent[n]] = "RED"
                     /\ parent[parent[n]] = root

\* C28: after every completed rb_insert_node, rb_delete or
\* rb_create_from_sorted_array the links agree: a non-sentinel left or right
\* child of a live node n has n as its parent, every live node is reached
\* from tree->root, and every live node but the root is the left or the right
\* child of its parent; the root's parent is the sentinel.
LinksAgree ==
  Idle =>
    LET reached == InTree
    IN /\ root # NIL => root \in live /\ parent[root] = NIL
       /\ live \subseteq reached
       /\ \A n \in live :
            /\ left[n] # NIL => left[n] \in live /\ parent[left[n]] = n
            /\ right[n] # NIL => right[n] \in live /\ parent[right[n]] = n
            /\ n # root =>
                 /\ parent[n] \in live
                 /\ left[parent[n]] = n \/ right[parent[n]] = n

\* A tree built from an array of four keys or more, and then changed by one
\* call.
LinksAgreeWitness ==
  /\ Idle
  /\ Len(arr) >= 4
  /\ nops = 1
  /\ \E n \in live : left[n] # NIL /\ right[n] # NIL /\ n # root
  /\ Cardinality(live) # Len(arr)

\* The nodes of the subtree whose root is n.
NodesUnder(n) ==
  LET io == rb_traverse_inorder(S, n)
  IN {io[i] : i \in 1..Len(io)}

\* The heap with every key negated: the order of the keys reversed.
Misordered == [S EXCEPT !.data = [n \in Ptr |-> 0 - data[n]]]

\* The heap with node n made BLACK.
Blackened(n) == [S EXCEPT !.color[n] = "BLACK"]

\* The nodes rb_verify_properties is called on: the root of the tree and the
\* roots of its two subtrees.
VerifyRoots == {root, left[root], right[root]} \cap (live \cup {NIL})

\* C29: called on a tree or subtree with root n, 0 and a count of -1,
\* rb_verify_properties returns true exactly when no RED node of it has a RED
\* child and all its paths down to the sentinel hold the same number of BLACK
\* nodes; the keys play no part, and n's own color plays none beyond the
\* test of its children, so a RED n or misordered keys can be reported valid.
VerifyChecksRedAndBlackOnly ==
  Idle =>
    \A n \in VerifyRoots :
      LET valid == rb_verify_properties(S, n, 0, -1).ok
      IN /\ valid <=>
              /\ \A m \in NodesUnder(n) :
                   color[m] = "RED" =>
                     color[left[m]] # "RED" /\ color[right[m]] # "RED"
              /\ Cardinality(BlackCounts(n)) = 1
         /\ valid = rb_verify_properties(Misordered, n, 0, -1).ok
         /\ color[left[n]] # "RED" /\ color[right[n]] # "RED" =>
              valid = rb_verify_properties(Blackened(n), n, 0, -1).ok

\* A subtree with a RED root, three nodes or more and keys that are not all
\* equal is reported valid, with its keys in order and with them reversed.
VerifyWitness ==
  /\ Idle
  /\ \E n \in VerifyRoots :
       /\ color[n] = "RED"
       /\ left[n] # NIL
       /\ right[n] # NIL
       /\ data[left[n]] < data[right[n]]
       /\ rb_verify_properties(S, n, 0, -1).ok
       /\ rb_verify_properties(Misordered, n, 0, -1).ok

\* A tree is reported invalid for its BLACK counts alone.
VerifyBlackCountsRejected ==
  /\ Idle
  /\ ~rb_verify_properties(S, root, 0, -1).ok
  /\ \A m \in live :
       color[m] = "RED" => color[left[m]] # "RED" /\ color[right[m]] # "RED"

\* r.visited holds every node of the tree exactly once and r.found is NULL.
VisitsAllFindsNone(r) ==
  /\ r.found = NULLP
  /\ Len(r.visited) = Cardinality(live)
  /\ {r.visited[i] : i \in 1..Len(r.visited)} = live

\* C30: called with search_value -1, rb_traverse_dfs_iterative,
\* rb_traverse_dfs_recursive and rb_traverse_bfs visit every node and return
\* NULL, also when a node of the tree is keyed -1, which rb_search finds.
MarkerKeyNotFound ==
  Idle =>
    /\ VisitsAllFindsNone(rb_traverse_dfs_iterative(S, root, -1))
    /\ VisitsAllFindsNone(rb_traverse_dfs_recursive(S, root, -1))
    /\ VisitsAllFindsNone(rb_traverse_bfs(S, root, -1))
    /\ net[-1] > 0 =>
         /\ rb_search(S, root, -1) \in live
         /\ data[rb_search(S, root, -1)] = -1

\* Two nodes are keyed -1, neither of them the root, among other keys.
MarkerKeyNotFoundWitness ==
  /\ Idle
  /\ net[-1] = 2
  /\ data[root] # -1
  /\ rb_search(S, root, -1) \in live
  /\ rb_traverse_bfs(S, root, -1).found = NULLP
  /\ Cardinality(live) >= 4

====
